---- MODULE Spec2Model ----
(***************************************************************************)
(* Model of folium/raster_layers.py: TileLayer, WmsTileLayer, ImageOverlay *)
(* and VideoOverlay.  Python strings are sequences of code points, byte    *)
(* strings are sequences of byte values; both are wrapped in tagged        *)
(* records so that a text string and a byte string never compare equal.    *)
(***************************************************************************)
EXTENDS Integers, Sequences, FiniteSets, TLC

VARIABLES py, tl, prev, cur, ov, ovs, header, last

vars == <<py, tl, prev, cur, ov, ovs, header, last>>

(* ------------------------------------------------------------------ *)
(* Bounds of the model                                                 *)
(* ------------------------------------------------------------------ *)
MaxPad == 1

MaxKw == 2

MaxOverlays == 2

MaxSeed == 1

MaxRenders == 2

MaxCoord == 10

(* ------------------------------------------------------------------ *)
(* Characters and strings                                              *)
(* ------------------------------------------------------------------ *)
Printable ==
  <<" ","!","\"","#","$","%","&","'","(",")","*","+",",","-",".","/",
    "0","1","2","3","4","5","6","7","8","9",":",";","<","=",">","?","@",
    "A","B","C","D","E","F","G","H","I","J","K","L","M","N","O","P","Q",
    "R","S","T","U","V","W","X","Y","Z","[","\\","]","^","_","GRAVE",
    "a","b","c","d","e","f","g","h","i","j","k","l","m","n","o","p","q",
    "r","s","t","u","v","w","x","y","z","{","|","}","~">>

Ord(c) ==
  31 + (CHOOSE i \in 1..Len(Printable) : Printable[i] = c)

S(chars) ==
  [i \in 1..Len(chars) |-> Ord(chars[i])]

TAB == 9

SPACE == 32

IsSpace(c) ==
  c \in {9, 10, 11, 12, 13, 28, 29, 30, 31, 32}

LowerChar(c) ==
  IF c >= 65 /\ c <= 90 THEN c + 32 ELSE c

UpperChar(c) ==
  IF c >= 97 /\ c <= 122 THEN c - 32 ELSE c

lower(s) ==
  [i \in 1..Len(s) |-> LowerChar(s[i])]

upper(s) ==
  [i \in 1..Len(s) |-> UpperChar(s[i])]

RECURSIVE LStrip(_)
LStrip(s) ==
  IF s # <<>> /\ IsSpace(Head(s)) THEN LStrip(Tail(s)) ELSE s

RECURSIVE RStrip(_)
RStrip(s) ==
  IF s # <<>> /\ IsSpace(s[Len(s)]) THEN RStrip(SubSeq(s, 1, Len(s) - 1)) ELSE s

strip(s) ==
  RStrip(LStrip(s))

RECURSIVE SplitFrom(_, _, _)
SplitFrom(s, i, word) ==
  IF i > Len(s)
    THEN IF word = <<>> THEN <<>> ELSE <<word>>
    ELSE IF IsSpace(s[i])
      THEN (IF word = <<>> THEN <<>> ELSE <<word>>) \o SplitFrom(s, i + 1, <<>>)
      ELSE SplitFrom(s, i + 1, Append(word, s[i]))

split(s) ==
  SplitFrom(s, 1, <<>>)

RECURSIVE join(_)
join(words) ==
  IF words = <<>> THEN <<>> ELSE Head(words) \o join(Tail(words))

Normalize(tiles) ==
  join(split(strip(lower(tiles))))

RECURSIVE StrLess(_, _)
StrLess(a, b) ==
  IF b = <<>> THEN FALSE
  ELSE IF a = <<>> THEN TRUE
  ELSE IF Head(a) # Head(b) THEN Head(a) < Head(b)
  ELSE StrLess(Tail(a), Tail(b))

(* String constants of the source *)
K_minZoom == S(<<"m","i","n","Z","o","o","m">>)

K_maxZoom == S(<<"m","a","x","Z","o","o","m">>)

K_noWrap == S(<<"n","o","W","r","a","p">>)

K_attribution == S(<<"a","t","t","r","i","b","u","t","i","o","n">>)

K_subdomains == S(<<"s","u","b","d","o","m","a","i","n","s">>)

K_detectRetina == S(<<"d","e","t","e","c","t","R","e","t","i","n","a">>)

N_TileLayer == S(<<"T","i","l","e","L","a","y","e","r">>)

S_abc == S(<<"a","b","c">>)

S_query == S(<<"?">>)

S_k == S(<<"k">>)

S_n == S(<<"n">>)

S_credit == S(<<"(","c",")","X">>)

(* ------------------------------------------------------------------ *)
(* Python values                                                       *)
(* ------------------------------------------------------------------ *)
None == [t |-> "None"]

Unset == [t |-> "unset"]

Text(s) == [t |-> "text", s |-> s]

Bytes(b) == [t |-> "bytes", b |-> b]

PyBool(x) == [t |-> "bool", x |-> x]

PyInt(n) == [t |-> "int", n |-> n]

PyFloat(tenths) == [t |-> "float", tenths |-> tenths]

Truthy(v) ==
  CASE v.t = "None" -> FALSE
    [] v.t = "text" -> v.s # <<>>
    [] v.t = "bytes" -> v.b # <<>>
    [] v.t = "bool" -> v.x
    [] v.t = "int" -> v.n # 0
    [] v.t = "float" -> v.tenths # 0
    [] OTHER -> TRUE

IsCont(b) ==
  b >= 128 /\ b <= 191

RECURSIVE Utf8From(_, _)
Utf8From(b, i) ==
  IF i > Len(b) THEN <<>>
  ELSE LET b0 == b[i]
           has(k) == i + k <= Len(b) /\ \A j \in 1..k : IsCont(b[i + j])
       IN  IF b0 < 128 THEN <<b0>> \o Utf8From(b, i + 1)
           ELSE IF b0 >= 194 /\ b0 <= 223 /\ has(1)
             THEN <<(b0 - 192) * 64 + (b[i + 1] - 128)>> \o Utf8From(b, i + 2)
           ELSE IF b0 >= 224 /\ b0 <= 239 /\ has(2)
                   /\ (b0 = 224 => b[i + 1] >= 160)
                   /\ (b0 = 237 => b[i + 1] <= 159)
             THEN <<(b0 - 224) * 4096 + (b[i + 1] - 128) * 64 + (b[i + 2] - 128)>>
                    \o Utf8From(b, i + 3)
           ELSE IF b0 >= 240 /\ b0 <= 244 /\ has(3)
                   /\ (b0 = 240 => b[i + 1] >= 144)
                   /\ (b0 = 244 => b[i + 1] <= 143)
             THEN <<(b0 - 240) * 262144 + (b[i + 1] - 128) * 4096
                      + (b[i + 2] - 128) * 64 + (b[i + 3] - 128)>>
                    \o Utf8From(b, i + 4)
           ELSE <<-1>>

text_type(b) ==
  LET cps == Utf8From(b, 1)
  IN  IF \E i \in 1..Len(cps) : cps[i] < 0
        THEN [exc |-> "UnicodeDecodeError", val |-> Unset]
        ELSE [exc |-> "none", val |-> Text(cps)]

(* ------------------------------------------------------------------ *)
(* dict and json.dumps                                                 *)
(* A dict is the sequence of its items in iteration order.  The text   *)
(* json.dumps returns is the sequence of its members in output order,  *)
(* each value encoded; the indentation is fixed (indent=2).            *)
(* ------------------------------------------------------------------ *)
Item(k, v) == [k |-> k, v |-> v]

HasKey(d, k) ==
  \E i \in 1..Len(d) : d[i].k = k

DictSet(d, k, v) ==
  IF HasKey(d, k)
    THEN [i \in 1..Len(d) |-> IF d[i].k = k THEN Item(k, v) ELSE d[i]]
    ELSE Append(d, Item(k, v))

DictGet(d, k, default) ==
  IF HasKey(d, k) THEN d[CHOOSE i \in 1..Len(d) : d[i].k = k].v ELSE default

DictIter(d, h) ==
  IF d = <<>> THEN d
  ELSE [i \in 1..Len(d) |-> d[((i - 1 + h) % Len(d)) + 1]]

RECURSIVE InsertSorted(_, _)
InsertSorted(sorted, item) ==
  IF sorted = <<>> THEN <<item>>
  ELSE IF StrLess(item.k, Head(sorted).k) THEN <<item>> \o sorted
  ELSE <<Head(sorted)>> \o InsertSorted(Tail(sorted), item)

RECURSIVE SortItems(_)
SortItems(d) ==
  IF d = <<>> THEN <<>> ELSE InsertSorted(SortItems(Tail(d)), Head(d))

JsonEncode(v, pyv) ==
  CASE v.t = "None" -> [exc |-> "none", j |-> [j |-> "null"]]
    [] v.t = "bool" -> [exc |-> "none", j |-> [j |-> IF v.x THEN "true" ELSE "false"]]
    [] v.t = "int" -> [exc |-> "none", j |-> [j |-> "number", tenths |-> 10 * v.n, frac |-> FALSE]]
    [] v.t = "float" -> [exc |-> "none", j |-> [j |-> "number", tenths |-> v.tenths, frac |-> TRUE]]
    [] v.t = "text" -> [exc |-> "none", j |-> [j |-> "string", s |-> v.s]]
    [] v.t = "bytes" ->
         IF pyv = 2
           THEN LET d == text_type(v.b)
                IN  IF d.exc = "none"
                      THEN [exc |-> "none", j |-> [j |-> "string", s |-> d.val.s]]
                      ELSE [exc |-> d.exc, j |-> [j |-> "null"]]
           ELSE [exc |-> "TypeError", j |-> [j |-> "null"]]

JsonMembers(d, pyv) ==
  LET enc == [i \in 1..Len(d) |-> JsonEncode(d[i].v, pyv)]
      bad == {i \in 1..Len(d) : enc[i].exc # "none"}
  IN  IF bad # {}
        THEN [exc |-> enc[CHOOSE i \in bad : \A j \in bad : i <= j].exc, text |-> <<>>]
        ELSE [exc |-> "none",
              text |-> [i \in 1..Len(d) |-> [k |-> d[i].k, j |-> enc[i].j]]]

JsonDumpsIgnoresSortKeys(d, sort_keys, pyv) ==
  JsonMembers(d, pyv)

JsonDumps(d, sort_keys, pyv) ==
  JsonMembers(IF sort_keys THEN SortItems(d) ELSE d, pyv)

(* json.dumps and json.loads of a nested array of numbers: the text is  *)
(* the sequence of its tokens.                                          *)
Tok(x) == [tok |-> x]

NumTok(tenths, frac) == [tok |-> "num", tenths |-> tenths, frac |-> frac]

JsonNumberTruncates(v) ==
  IF v.t = "int" THEN NumTok(10 * v.n, FALSE)
  ELSE NumTok(v.tenths - (v.tenths % 10), FALSE)

JsonNumber(v) ==
  IF v.t = "int" THEN NumTok(10 * v.n, FALSE) ELSE NumTok(v.tenths, TRUE)

RECURSIVE JsonDumpsValue(_)
RECURSIVE JsonDumpsItems(_, _)
JsonDumpsValue(v) ==
  IF v.t \in {"list", "tuple"}
    THEN <<Tok("[")>> \o JsonDumpsItems(v.items, 1) \o <<Tok("]")>>
    ELSE <<JsonNumber(v)>>

JsonDumpsItems(items, i) ==
  IF i > Len(items) THEN <<>>
  ELSE (IF i > 1 THEN <<Tok(",")>> ELSE <<>>)
         \o JsonDumpsValue(items[i]) \o JsonDumpsItems(items, i + 1)

PyList(items) == [t |-> "list", items |-> items]

RECURSIVE JsonParseValue(_, _)
RECURSIVE JsonParseItems(_, _, _)
JsonParseValue(toks, i) ==
  IF toks[i].tok = "["
    THEN IF toks[i + 1].tok = "]"
           THEN [val |-> PyList(<<>>), next |-> i + 2]
           ELSE JsonParseItems(toks, i + 1, <<>>)
    ELSE [val |-> IF toks[i].frac THEN PyFloat(toks[i].tenths)
                  ELSE PyInt(toks[i].tenths \div 10),
          next |-> i + 1]

JsonParseItems(toks, i, acc) ==
  LET item == JsonParseValue(toks, i)
      acc2 == Append(acc, item.val)
  IN  IF toks[item.next].tok = ","
        THEN JsonParseItems(toks, item.next + 1, acc2)
        ELSE [val |-> PyList(acc2), next |-> item.next + 1]

JsonLoads(toks) ==
  JsonParseValue(toks, 1).val

Member(text, k) ==
  text[CHOOSE i \in 1..Len(text) : text[i].k = k].j

(* ------------------------------------------------------------------ *)
(* The tile template registry (folium/templates/tiles/<name>/...)      *)
(* ------------------------------------------------------------------ *)
DisplayNames ==
  { S(<<"O","p","e","n","S","t","r","e","e","t","M","a","p">>),
    S(<<"M","a","p","b","o","x"," ","B","r","i","g","h","t">>),
    S(<<"M","a","p","b","o","x"," ","C","o","n","t","r","o","l"," ","R","o","o","m">>),
    S(<<"S","t","a","m","e","n"," ","T","e","r","r","a","i","n">>),
    S(<<"S","t","a","m","e","n"," ","T","o","n","e","r">>),
    S(<<"S","t","a","m","e","n"," ","W","a","t","e","r","c","o","l","o","r">>),
    S(<<"C","l","o","u","d","m","a","d","e">>),
    S(<<"M","a","p","b","o","x">>),
    S(<<"C","a","r","t","o","D","B"," ","p","o","s","i","t","r","o","n">>),
    S(<<"C","a","r","t","o","D","B"," ","d","a","r","k","_","m","a","t","t","e","r">>) }

Providers ==
  { join(split(strip(lower(n)))) : n \in DisplayNames }

TilesPrefix == S(<<"t","i","l","e","s","/">>)

TilesTxt == S(<<"/","t","i","l","e","s",".","t","x","t">>)

AttrTxt == S(<<"/","a","t","t","r",".","t","x","t">>)

list_templates ==
  { TilesPrefix \o p \o TilesTxt : p \in Providers }
    \cup { TilesPrefix \o p \o AttrTxt : p \in Providers }

get_template_render(path, API_key) ==
  Text(path \o S_query \o (IF API_key.t = "text" THEN API_key.s ELSE <<>>))

KeyGatedOnlyCloudmade ==
  { S(<<"c","l","o","u","d","m","a","d","e">>) }

KeyGated ==
  { S(<<"c","l","o","u","d","m","a","d","e">>), S(<<"m","a","p","b","o","x">>) }

(* ------------------------------------------------------------------ *)
(* TileLayer.__init__                                                  *)
(* ------------------------------------------------------------------ *)
TileSelf0 ==
  [tile_name |-> Unset, _name |-> Unset, options |-> Unset,
   tiles |-> Unset, attr |-> Unset]

TileOptions(in) ==
  << Item(K_minZoom, in.min_zoom),
     Item(K_maxZoom, in.max_zoom),
     Item(K_noWrap, in.no_wrap),
     Item(K_attribution, in.attr),
     Item(K_subdomains, in.subdomains),
     Item(K_detectRetina, in.detect_retina) >>

IsBuiltin(norm) ==
  /\ (TilesPrefix \o norm \o TilesTxt) \in list_templates
  /\ (TilesPrefix \o norm \o AttrTxt) \in list_templates

ResolveBuiltin(self, norm, API_key) ==
  [self |-> [self EXCEPT
               !.tiles = get_template_render(TilesPrefix \o norm \o TilesTxt, API_key),
               !.attr = get_template_render(TilesPrefix \o norm \o AttrTxt, None)],
   exc |-> "none"]

ResolveCustomNormalized(self, tiles, attr) ==
  LET s1 == [self EXCEPT !.tiles = Text(Normalize(tiles))]
  IN  IF ~Truthy(attr)
        THEN [self |-> s1, exc |-> "ValueError"]
        ELSE [self |-> [s1 EXCEPT !.attr = attr], exc |-> "none"]

ResolveCustomAssignsFirst(self, tiles, attr) ==
  LET s1 == [self EXCEPT !.tiles = Text(tiles), !.attr = attr]
  IN  IF ~Truthy(attr)
        THEN [self |-> s1, exc |-> "ValueError"]
        ELSE [self |-> s1, exc |-> "none"]

ResolveCustom(self, tiles, attr) ==
  LET s1 == [self EXCEPT !.tiles = Text(tiles)]
  IN  IF ~Truthy(attr)
        THEN [self |-> s1, exc |-> "ValueError"]
        ELSE IF attr.t = "bytes"
          THEN LET d == text_type(attr.b)
               IN  IF d.exc # "none"
                     THEN [self |-> s1, exc |-> d.exc]
                     ELSE [self |-> [s1 EXCEPT !.attr = d.val], exc |-> "none"]
          ELSE [self |-> [s1 EXCEPT !.attr = attr], exc |-> "none"]

TileLayerInit(in, h, pyv) ==
  LET s1 == [TileSelf0 EXCEPT
               !.tile_name = IF in.name # None THEN in.name
                             ELSE Text(Normalize(in.tiles)),
               !._name = Text(N_TileLayer)]
      dump == JsonDumps(DictIter(TileOptions(in), h), TRUE, pyv)
      s2 == [s1 EXCEPT !.options = dump.text]
      norm == Normalize(in.tiles)
      s3 == [s2 EXCEPT !.tiles = Text(norm)]
  IN  IF dump.exc # "none" THEN [self |-> s1, exc |-> dump.exc]
      ELSE IF norm \in KeyGated /\ ~Truthy(in.API_key)
        THEN [self |-> s3, exc |-> "ValueError"]
      ELSE IF IsBuiltin(norm)
        THEN ResolveBuiltin(s3, norm, in.API_key)
        ELSE ResolveCustom(s3, in.tiles, in.attr)

(* ------------------------------------------------------------------ *)
(* Inputs of the TileLayer constructor                                 *)
(* ------------------------------------------------------------------ *)
CustomNames ==
  { S(<<"M","y"," ","T","i","l","e","s","/","{","z","}">>),
    S(<<"M","a","p","b","o","x"," ","D","a","r","k">>) }

Repeat(c, n) ==
  [i \in 1..n |-> c]

Pad(n, k, c, len) ==
  SubSeq(n, 1, k) \o Repeat(c, len) \o SubSeq(n, k + 1, Len(n))

Cased(n) ==
  { n, lower(n), upper(n) }

Variants(n) ==
  UNION { Cased(Pad(n, k, c, len)) :
            <<k, c, len>> \in (0..Len(n)) \X {SPACE, TAB} \X (0..MaxPad) }

TilesInputs ==
  UNION { Variants(n) : n \in DisplayNames \cup CustomNames }

AttrInputs ==
  { None, Text(<<>>), Text(S_credit),
    Bytes(<<>>), Bytes(<<79, 83, 77>>), Bytes(<<195, 169>>),
    Bytes(<<226, 130, 172>>), Bytes(<<255>>), Bytes(<<65, 195>>) }

KeyInputs ==
  { None, Text(<<>>), Text(S_k) }

NameInputs ==
  { None, Text(S_n) }

TileIn(tiles, attr, key, name) ==
  [tiles |-> tiles, min_zoom |-> PyInt(1), max_zoom |-> PyInt(18), attr |-> attr,
   API_key |-> key, detect_retina |-> PyBool(FALSE), name |-> name,
   no_wrap |-> PyBool(FALSE), subdomains |-> Text(S_abc)]

(* ------------------------------------------------------------------ *)
(* Specification of TileLayer construction                             *)
(* ------------------------------------------------------------------ *)
InitTile ==
  /\ py \in {2, 3}
  /\ \E tiles \in TilesInputs, attr \in AttrInputs, key \in KeyInputs, name \in NameInputs :
       tl = [in |-> TileIn(tiles, attr, key, name), self |-> TileSelf0, exc |-> "pending"]
  /\ prev = <<>> /\ cur = <<>> /\ ov = <<>> /\ ovs = <<>>
  /\ header = <<>> /\ last = <<>>

ConstructTileLayer ==
  /\ tl.exc = "pending"
  /\ LET r == TileLayerInit(tl.in, 0, py)
     IN  tl' = [tl EXCEPT !.self = r.self, !.exc = r.exc]
  /\ UNCHANGED <<py, prev, cur, ov, ovs, header, last>>

NextTile ==
  ConstructTileLayer

SpecTile ==
  InitTile /\ [][NextTile]_vars

(* ------------------------------------------------------------------ *)
(* WmsTileLayer.__init__                                               *)
(* ------------------------------------------------------------------ *)
K_layers == S(<<"l","a","y","e","r","s">>)

K_styles == S(<<"s","t","y","l","e","s">>)

K_format == S(<<"f","o","r","m","a","t">>)

K_fmt == S(<<"f","m","t">>)

K_transparent == S(<<"t","r","a","n","s","p","a","r","e","n","t">>)

K_version == S(<<"v","e","r","s","i","o","n">>)

K_crs == S(<<"c","r","s">>)

K_tiled == S(<<"t","i","l","e","d">>)

S_jpeg == S(<<"i","m","a","g","e","/","j","p","e","g">>)

S_png == S(<<"i","m","a","g","e","/","p","n","g">>)

S_111 == S(<<"1",".","1",".","1">>)

S_url == S(<<"h","t","t","p",":","/","/","w","m","s">>)

WmsNamed == {K_layers, K_styles, K_fmt, K_transparent, K_version, K_crs}

_parse_wms(kw) ==
  << Item(K_layers, DictGet(kw, K_layers, Text(<<>>))),
     Item(K_styles, DictGet(kw, K_styles, Text(<<>>))),
     Item(K_format, DictGet(kw, K_fmt, Text(S_jpeg))),
     Item(K_transparent, DictGet(kw, K_transparent, PyBool(FALSE))),
     Item(K_version, DictGet(kw, K_version, Text(S_111))),
     Item(K_crs, DictGet(kw, K_crs, None)) >>
    \o SelectSeq(kw, LAMBDA it : it.k \notin WmsNamed)

WmsTileLayerInit(in, h, pyv) ==
  LET parsed == DictIter(_parse_wms(in.kwargs), h)
      options == DictSet(parsed, K_attribution, in.attr)
      dump == JsonDumps(options, TRUE, pyv)
  IN  IF dump.exc # "none"
        THEN [self |-> [url |-> Text(in.url), options |-> Unset], exc |-> dump.exc]
        ELSE [self |-> [url |-> Text(in.url), options |-> dump.text], exc |-> "none"]

(* ------------------------------------------------------------------ *)
(* ImageOverlay.__init__, render, _get_self_bounds                     *)
(* ------------------------------------------------------------------ *)
K_opacity == S(<<"o","p","a","c","i","t","y">>)

K_alt == S(<<"a","l","t">>)

K_interactive == S(<<"i","n","t","e","r","a","c","t","i","v","e">>)

K_crossOrigin == S(<<"c","r","o","s","s","O","r","i","g","i","n">>)

K_cross_origin == S(<<"c","r","o","s","s","_","o","r","i","g","i","n">>)

K_errorOverlayUrl == S(<<"e","r","r","o","r","O","v","e","r","l","a","y","U","r","l">>)

K_error_overlay_url == S(<<"e","r","r","o","r","_","o","v","e","r","l","a","y","_","u","r","l">>)

K_zIndex == S(<<"z","I","n","d","e","x">>)

K_zindex == S(<<"z","i","n","d","e","x">>)

K_className == S(<<"c","l","a","s","s","N","a","m","e">>)

K_class_name == S(<<"c","l","a","s","s","_","n","a","m","e">>)

N_ImageOverlay == S(<<"I","m","a","g","e","O","v","e","r","l","a","y">>)

N_VideoOverlay == S(<<"V","i","d","e","o","O","v","e","r","l","a","y">>)

K_leaflet_image_layer ==
  S(<<"l","e","a","f","l","e","t","-","i","m","a","g","e","-","l","a","y","e","r">>)

ImageOptions(kwargs) ==
  << Item(K_opacity, DictGet(kwargs, K_opacity, PyFloat(10))),
     Item(K_alt, DictGet(kwargs, K_alt, Text(<<>>))),
     Item(K_interactive, DictGet(kwargs, K_interactive, PyBool(FALSE))),
     Item(K_crossOrigin, DictGet(kwargs, K_cross_origin, PyBool(FALSE))),
     Item(K_errorOverlayUrl, DictGet(kwargs, K_error_overlay_url, Text(<<>>))),
     Item(K_zIndex, DictGet(kwargs, K_zindex, PyInt(1))),
     Item(K_className, DictGet(kwargs, K_class_name, Text(<<>>))) >>

mercator_transform(image, lat_extent, origin) ==
  [t |-> "mercator", image |-> image, lat_extent |-> lat_extent, origin |-> origin]

image_to_url(image, origin, colormap) ==
  [t |-> "url", image |-> image, origin |-> origin, colormap |-> colormap]

LatitudeExtentUsesLongitude(bounds) ==
  <<bounds.items[1].items[2], bounds.items[2].items[2]>>

LatitudeExtent(bounds) ==
  <<bounds.items[1].items[1], bounds.items[2].items[1]>>

ImageForUrlIgnoresTransform(in) ==
  [image |-> in.image,
   calls |-> IF in.mercator_project
               THEN <<[fn |-> "mercator_transform", image |-> in.image,
                       lat_extent |-> LatitudeExtent(in.bounds), origin |-> in.origin]>>
               ELSE <<>>]

ImageForUrl(in) ==
  IF in.mercator_project
    THEN [image |-> mercator_transform(in.image, LatitudeExtent(in.bounds), in.origin),
          calls |-> <<[fn |-> "mercator_transform", image |-> in.image,
                       lat_extent |-> LatitudeExtent(in.bounds), origin |-> in.origin]>>]
    ELSE [image |-> in.image, calls |-> <<>>]

OverlaySelf0 ==
  [_name |-> Unset, pixelated |-> Unset, url |-> Unset, bounds |-> Unset,
   options |-> Unset]

ImageOverlayInit(in, h, pyv) ==
  LET options == DictIter(ImageOptions(in.kwargs), h)
      s1 == [OverlaySelf0 EXCEPT !._name = Text(N_ImageOverlay),
                                 !.pixelated = in.pixelated]
      img == ImageForUrl(in)
      calls == Append(img.calls,
                      [fn |-> "image_to_url", image |-> img.image,
                       origin |-> in.origin, colormap |-> in.colormap])
      s2 == [s1 EXCEPT !.url = image_to_url(img.image, in.origin, in.colormap),
                       !.bounds = JsonLoads(JsonDumpsValue(in.bounds))]
      dump == JsonDumps(options, TRUE, pyv)
  IN  IF dump.exc # "none"
        THEN [self |-> s2, exc |-> dump.exc, calls |-> calls]
        ELSE [self |-> [s2 EXCEPT !.options = dump.text], exc |-> "none",
              calls |-> calls]

Roots == {"fig1", "fig2", "div"}

Figures == {"fig1", "fig2"}

get_root(parent) ==
  IF parent = "none" THEN "self" ELSE parent

PixelatedCss == [element |-> "<style>.leaflet-image-layer{image-rendering}</style>"]

add_child(children, child, name) ==
  DictSet(children, name, child)

ImageOverlayRenderAlwaysInserts(self, parent, hdr) ==
  LET figure == get_root(parent)
  IN  IF figure \notin Figures
        THEN [exc |-> "AssertionError", header |-> hdr]
        ELSE [exc |-> "none",
              header |-> [hdr EXCEPT ![figure] =
                            add_child(hdr[figure], PixelatedCss, K_leaflet_image_layer)]]

ImageOverlayRenderInsertsBeforeAssert(self, parent, hdr) ==
  LET figure == get_root(parent)
      hdr2 == IF figure \in Roots /\ Truthy(self.pixelated)
                THEN [hdr EXCEPT ![figure] =
                        add_child(hdr[figure], PixelatedCss, K_leaflet_image_layer)]
                ELSE hdr
  IN  IF figure \notin Figures
        THEN [exc |-> "AssertionError", header |-> hdr2]
        ELSE [exc |-> "none", header |-> hdr2]

ImageOverlayRender(self, parent, hdr) ==
  LET figure == get_root(parent)
  IN  IF figure \notin Figures
        THEN [exc |-> "AssertionError", header |-> hdr]
        ELSE IF Truthy(self.pixelated)
          THEN [exc |-> "none",
                header |-> [hdr EXCEPT ![figure] =
                              add_child(hdr[figure], PixelatedCss, K_leaflet_image_layer)]]
          ELSE [exc |-> "none", header |-> hdr]

_get_self_bounds(self) ==
  self.bounds

(* ------------------------------------------------------------------ *)
(* VideoOverlay.__init__                                               *)
(* ------------------------------------------------------------------ *)
K_loop == S(<<"l","o","o","p">>)

K_autoplay == S(<<"a","u","t","o","p","l","a","y">>)

VideoOptions(in) ==
  << Item(K_opacity, in.opacity),
     Item(K_attribution, in.attr),
     Item(K_loop, in.loop),
     Item(K_autoplay, in.autoplay) >>

VideoOverlayInit(in, h, pyv) ==
  LET s1 == [OverlaySelf0 EXCEPT !._name = Text(N_VideoOverlay),
                                 !.url = Text(in.video_url),
                                 !.bounds = JsonLoads(JsonDumpsValue(in.bounds))]
      dump == JsonDumps(DictIter(VideoOptions(in), h), FALSE, pyv)
  IN  IF dump.exc # "none"
        THEN [self |-> s1, exc |-> dump.exc, calls |-> <<>>]
        ELSE [self |-> [s1 EXCEPT !.options = dump.text], exc |-> "none",
              calls |-> <<>>]

(* ------------------------------------------------------------------ *)
(* Specification of options serialization: at most two constructions,  *)
(* each with its own dict iteration order                              *)
(* ------------------------------------------------------------------ *)
RECURSIVE KwSeqs(_, _)
KwSeqs(pool, n) ==
  IF n = 0 THEN {<<>>}
  ELSE LET shorter == KwSeqs(pool, n - 1)
       IN  shorter \cup { Append(kw, it) :
                            <<kw, it>> \in { x \in shorter \X pool : ~HasKey(x[1], x[2].k) } }

WmsKwPool ==
  { Item(K_layers, Text(S_k)), Item(K_fmt, Text(S_png)),
    Item(K_transparent, PyBool(TRUE)), Item(K_tiled, PyBool(TRUE)) }

ImageKwPool ==
  { Item(K_opacity, PyFloat(5)), Item(K_alt, Text(S_n)),
    Item(K_zindex, PyInt(2)), Item(K_class_name, Text(S_k)) }

S_OpenStreetMap == S(<<"O","p","e","n","S","t","r","e","e","t","M","a","p">>)

S_custom == S(<<"M","y"," ","T","i","l","e","s","/","{","z","}">>)

ImageIn(image, bounds, origin, colormap, mercator_project, pixelated, kwargs) ==
  [image |-> image, bounds |-> bounds, origin |-> origin, colormap |-> colormap,
   mercator_project |-> mercator_project, pixelated |-> pixelated, kwargs |-> kwargs]

Array2D == [t |-> "array", ndim |-> 2]

Array3D == [t |-> "array", ndim |-> 3]

UnitBounds ==
  PyList(<<PyList(<<PyInt(0), PyInt(0)>>), PyList(<<PyInt(1), PyInt(1)>>)>>)

NoObject == [cls |-> "none", in |-> <<>>, options |-> <<>>, exc |-> "nocall"]

InitOptions ==
  /\ py \in {2, 3}
  /\ prev = NoObject /\ cur = NoObject
  /\ tl = <<>> /\ ov = <<>> /\ ovs = <<>> /\ header = <<>> /\ last = <<>>

Record(cls, in, r) ==
  /\ prev.exc = "nocall"
  /\ cur' = [cls |-> cls, in |-> in, options |-> r.self.options, exc |-> r.exc]
  /\ prev' = cur
  /\ UNCHANGED <<py, tl, ov, ovs, header, last>>

SerializeTileLayer ==
  \E tiles \in {S_OpenStreetMap, S_custom}, attr \in {None, Text(S_credit)},
     h \in 0..MaxSeed :
    LET in == TileIn(tiles, attr, None, None)
    IN  Record("TileLayer", in, TileLayerInit(in, h, py))

SerializeWmsTileLayer ==
  \E kwargs \in KwSeqs(WmsKwPool, MaxKw), attr \in {Text(<<>>), Text(S_credit)},
     h \in 0..MaxSeed :
    LET in == [url |-> S_url, attr |-> attr, kwargs |-> kwargs]
    IN  Record("WmsTileLayer", in, WmsTileLayerInit(in, h, py))

SerializeImageOverlay ==
  \E kwargs \in KwSeqs(ImageKwPool, MaxKw), h \in 0..MaxSeed :
    LET in == ImageIn(Array2D, UnitBounds, "upper", None, FALSE, PyBool(TRUE), kwargs)
    IN  Record("ImageOverlay", in, ImageOverlayInit(in, h, py))

NextOptions ==
  \/ SerializeTileLayer
  \/ SerializeWmsTileLayer
  \/ SerializeImageOverlay

SpecOptions ==
  InitOptions /\ [][NextOptions]_vars

(* ------------------------------------------------------------------ *)
(* Specification of one overlay: construction, attachment, rendering   *)
(* ------------------------------------------------------------------ *)
Coordinates ==
  { PyInt(MaxCoord), PyFloat(0 - (10 * MaxCoord + 5)) }

BoundsInputs ==
  { [t |-> kind,
     items |-> << [t |-> kind, items |-> <<a, b>>], [t |-> kind, items |-> <<c, d>>] >>] :
      <<kind, a, b, c, d>> \in {"list", "tuple"} \X Coordinates \X Coordinates
                                 \X Coordinates \X Coordinates }

ImageInputs ==
  { ImageIn(image, bounds, origin, colormap, merc, PyBool(pix), <<>>) :
      <<image, bounds, origin, colormap, merc, pix>> \in
        {Array2D, Array3D} \X BoundsInputs \X {"upper", "lower"}
          \X {None, [t |-> "colormap"]} \X BOOLEAN \X BOOLEAN }

S_video == S(<<"a",".","m","p","4">>)

VideoInputs ==
  { [video_url |-> S_video, bounds |-> bounds, opacity |-> PyFloat(10),
     attr |-> attr, autoplay |-> PyBool(TRUE), loop |-> PyBool(TRUE)] :
      <<bounds, attr>> \in BoundsInputs \X {None, Text(S_credit)} }

EmptyHeaders == [r \in Roots |-> <<>>]

NoRender == [ov |-> 0, exc |-> "norender"]

Pending(cls, in) ==
  [cls |-> cls, in |-> in, self |-> OverlaySelf0, exc |-> "pending",
   calls |-> <<>>, parent |-> "none", renders |-> 0]

InitOverlay ==
  /\ py \in {2, 3}
  /\ \/ \E in \in ImageInputs : ov = Pending("ImageOverlay", in)
     \/ \E in \in VideoInputs : ov = Pending("VideoOverlay", in)
  /\ header = EmptyHeaders
  /\ last = NoRender
  /\ tl = <<>> /\ prev = <<>> /\ cur = <<>> /\ ovs = <<>>

ConstructImageOverlay ==
  /\ ov.exc = "pending" /\ ov.cls = "ImageOverlay"
  /\ LET r == ImageOverlayInit(ov.in, 0, py)
     IN  ov' = [ov EXCEPT !.self = r.self, !.exc = r.exc, !.calls = r.calls]
  /\ UNCHANGED <<py, tl, prev, cur, ovs, header, last>>

ConstructVideoOverlay ==
  /\ ov.exc = "pending" /\ ov.cls = "VideoOverlay"
  /\ LET r == VideoOverlayInit(ov.in, 0, py)
     IN  ov' = [ov EXCEPT !.self = r.self, !.exc = r.exc, !.calls = r.calls]
  /\ UNCHANGED <<py, tl, prev, cur, ovs, header, last>>

AddTo ==
  /\ ov.exc = "none"
  /\ \E root \in Roots :
       /\ ov.parent # root
       /\ ov' = [ov EXCEPT !.parent = root]
  /\ UNCHANGED <<py, tl, prev, cur, ovs, header, last>>

LayerRender(parent) ==
  IF get_root(parent) \notin Figures THEN "AssertionError" ELSE "none"

RenderImageOverlay ==
  /\ ov.exc = "none" /\ ov.cls = "ImageOverlay"
  /\ ov.renders < MaxRenders
  /\ LET r == ImageOverlayRender(ov.self, ov.parent, header)
     IN  /\ header' = r.header
         /\ last' = [ov |-> 1, exc |-> r.exc]
  /\ ov' = [ov EXCEPT !.renders = @ + 1]
  /\ UNCHANGED <<py, tl, prev, cur, ovs>>

RenderVideoOverlay ==
  /\ ov.exc = "none" /\ ov.cls = "VideoOverlay"
  /\ ov.renders < MaxRenders
  /\ last' = [ov |-> 1, exc |-> LayerRender(ov.parent)]
  /\ ov' = [ov EXCEPT !.renders = @ + 1]
  /\ UNCHANGED <<py, tl, prev, cur, ovs, header>>

NextOverlay ==
  \/ ConstructImageOverlay
  \/ ConstructVideoOverlay
  \/ AddTo
  \/ RenderImageOverlay
  \/ RenderVideoOverlay

SpecOverlay ==
  InitOverlay /\ [][NextOverlay]_vars

(* ------------------------------------------------------------------ *)
(* Specification of several ImageOverlays sharing documents            *)
(* ------------------------------------------------------------------ *)
InitFigure ==
  /\ py \in {2, 3}
  /\ ovs = <<>>
  /\ header = EmptyHeaders
  /\ last = NoRender
  /\ tl = <<>> /\ prev = <<>> /\ cur = <<>> /\ ov = <<>>

NewImageOverlay ==
  /\ Len(ovs) < MaxOverlays
  /\ \E pix \in BOOLEAN :
       LET in == ImageIn(Array2D, UnitBounds, "upper", None, FALSE, PyBool(pix), <<>>)
           r == ImageOverlayInit(in, 0, py)
       IN  /\ r.exc = "none"
           /\ ovs' = Append(ovs, [self |-> r.self, parent |-> "none", renderedIn |-> {}])
  /\ UNCHANGED <<py, tl, prev, cur, ov, header, last>>

AddToRoot ==
  /\ \E i \in 1..Len(ovs), root \in Roots :
       /\ ovs[i].parent # root
       /\ ovs' = [ovs EXCEPT ![i].parent = root]
  /\ UNCHANGED <<py, tl, prev, cur, ov, header, last>>

Render ==
  /\ \E i \in 1..Len(ovs) :
       LET r == ImageOverlayRender(ovs[i].self, ovs[i].parent, header)
       IN  /\ header' = r.header
           /\ last' = [ov |-> i, exc |-> r.exc]
           /\ ovs' = IF r.exc = "none"
                       THEN [ovs EXCEPT ![i].renderedIn = @ \cup {get_root(ovs[i].parent)}]
                       ELSE ovs
  /\ UNCHANGED <<py, tl, prev, cur, ov>>

NextFigure ==
  \/ NewImageOverlay
  \/ AddToRoot
  \/ Render

SpecFigure ==
  InitFigure /\ [][NextFigure]_vars

(* ------------------------------------------------------------------ *)
(* Properties of TileLayer construction                                *)
(* ------------------------------------------------------------------ *)
S_cloudmade == S(<<"c","l","o","u","d","m","a","d","e">>)

S_mapbox == S(<<"m","a","p","b","o","x">>)

BuiltinInputs ==
  UNION { Variants(n) : n \in DisplayNames }

GatedInputs ==
  UNION { Variants(n) : n \in { S(<<"C","l","o","u","d","m","a","d","e">>),
                                S(<<"M","a","p","b","o","x">>) } }

CustomInputs ==
  UNION { Variants(n) : n \in CustomNames }

Constructed == tl.exc # "pending"

NonEmptyText(v) == v.t = "text" /\ v.s # <<>>

\* C1: a built-in provider name, in any letter case and with any leading,
\* trailing or internal whitespace, constructed without an API key raises
\* ValueError (the ConfigurationError) iff the provider is cloudmade or
\* mapbox; every other built-in provider succeeds with a non-empty URL
\* template and a non-empty attribution.
C1_KeyGatedIff ==
  (Constructed /\ tl.in.tiles \in BuiltinInputs /\ ~Truthy(tl.in.API_key)
     /\ tl.in.attr.t # "bytes")
    => /\ (tl.exc = "ValueError") <=> (tl.in.tiles \in GatedInputs)
       /\ tl.in.tiles \notin GatedInputs
            => /\ tl.exc = "none"
               /\ NonEmptyText(tl.self.tiles)
               /\ NonEmptyText(tl.self.attr)

C1_Witness ==
  /\ tl.exc = "ValueError"
  /\ tl.in.tiles \in GatedInputs
  /\ tl.in.tiles \notin {S_cloudmade, S_mapbox}
  /\ lower(tl.in.tiles) # tl.in.tiles
  /\ \E i \in 1..Len(tl.in.tiles) : IsSpace(tl.in.tiles[i])
  /\ tl.in.API_key = None
  /\ tl.in.attr = None

\* C2: for a tiles identifier that is not a built-in provider, construction
\* raises ValueError when no attribution is supplied, and otherwise succeeds
\* with tiles equal to the original, un-normalized string and attr equal to
\* the supplied attribution (a text string; byte strings are the case of C3).
C2_CustomTiles ==
  (Constructed /\ tl.in.tiles \in CustomInputs /\ tl.in.attr.t # "bytes")
    => /\ ~Truthy(tl.in.attr) => tl.exc = "ValueError"
       /\ Truthy(tl.in.attr)
            => /\ tl.exc = "none"
               /\ tl.self.tiles = Text(tl.in.tiles)
               /\ tl.self.attr = tl.in.attr

C2_Witness ==
  /\ tl.exc = "none"
  /\ tl.in.tiles \in CustomInputs
  /\ Normalize(tl.in.tiles) # tl.in.tiles
  /\ tl.in.attr = Text(S_credit)
  /\ tl.self.tiles = Text(tl.in.tiles)

\* C3: for a custom tile URL, an attribution supplied as a (non-empty,
\* well-formed UTF-8) byte string is accepted and the layer's attr is the
\* text obtained by decoding the bytes as UTF-8.
C3_BytesAttribution ==
  (Constructed /\ tl.in.tiles \in CustomInputs /\ tl.in.attr.t = "bytes"
     /\ tl.in.attr.b # <<>> /\ text_type(tl.in.attr.b).exc = "none")
    => /\ tl.exc = "none"
       /\ tl.self.attr = text_type(tl.in.attr.b).val

\* C6 (as stated): whenever the constructor raises ValueError, no field of
\* the layer has been assigned.
C6_NoFieldAssigned ==
  (Constructed /\ tl.exc = "ValueError") => tl.self = TileSelf0

\* C6 (amended): whenever the constructor raises ValueError, attr has not
\* been assigned, while tile_name, _name, options and tiles already have:
\* tiles holds the normalized identifier when the API key is missing and the
\* original string when the attribution is missing.
C6_OnlyAttrUnassigned ==
  (Constructed /\ tl.exc = "ValueError")
    => /\ tl.self.attr = Unset
       /\ tl.self.tile_name # Unset
       /\ tl.self._name = Text(N_TileLayer)
       /\ tl.self.options # Unset
       /\ IF tl.in.tiles \in GatedInputs
            THEN tl.self.tiles = Text(Normalize(tl.in.tiles))
            ELSE tl.self.tiles = Text(tl.in.tiles)

C6_Witness ==
  /\ tl.exc = "ValueError"
  /\ tl.in.tiles \in CustomInputs
  /\ tl.in.attr = None
  /\ tl.self.attr = Unset
  /\ tl.self.tiles = Text(tl.in.tiles)

\* C10: for every successfully constructed TileLayer the 'attribution'
\* member of the serialized options equals the layer's resolved attribution.
C10_AttributionInOptions ==
  (Constructed /\ tl.exc = "none")
    => Member(tl.self.options, K_attribution) = [j |-> "string", s |-> tl.self.attr.s]


(* ------------------------------------------------------------------ *)
(* Properties of ImageOverlay rendering                                *)
(* ------------------------------------------------------------------ *)
CssCopies(children) ==
  Cardinality({ i \in 1..Len(children) : children[i].v = PixelatedCss })

PixelatedRenderedIn(d) ==
  \E i \in 1..Len(ovs) : Truthy(ovs[i].self.pixelated) /\ d \in ovs[i].renderedIn

\* C4: after any sequence of renders of any number of ImageOverlays, the head
\* of a figure holds the pixelated CSS block exactly once, under the key
\* 'leaflet-image-layer', if an overlay with pixelated=True was rendered in
\* it, and not at all if every overlay rendered in it had pixelated=False.
C4_CssExactlyOnce ==
  \A d \in Figures :
    IF PixelatedRenderedIn(d)
      THEN /\ CssCopies(header[d]) = 1
           /\ HasKey(header[d], K_leaflet_image_layer)
           /\ Len(header[d]) = 1
      ELSE header[d] = <<>>

C4_Witness ==
  /\ Len(ovs) >= 2
  /\ Truthy(ovs[1].self.pixelated) /\ Truthy(ovs[2].self.pixelated)
  /\ "fig1" \in ovs[1].renderedIn /\ "fig1" \in ovs[2].renderedIn
  /\ CssCopies(header["fig1"]) = 1
  /\ header["fig2"] = <<>>

\* C5: a render of an ImageOverlay whose root is not a figure fails with
\* AssertionError (the StructuralError) and leaves every document head as
\* it was.
C5_NotInFigure ==
  [][ (last' # last /\ get_root(ovs[last'.ov].parent) \notin Figures)
        => (last'.exc = "AssertionError" /\ header' = header) ]_vars

C5_Witness ==
  /\ last.exc = "AssertionError"
  /\ Truthy(ovs[last.ov].self.pixelated)
  /\ ovs[last.ov].parent = "div"
  /\ header = EmptyHeaders

(* ------------------------------------------------------------------ *)
(* Properties of overlay construction                                  *)
(* ------------------------------------------------------------------ *)
\* C7: when mercator_project is requested the image goes through
\* mercator_transform with latitude extent [bounds[0][0], bounds[1][0]] and
\* the declared origin before image_to_url, which receives the reprojected
\* image; otherwise mercator_transform is never called and image_to_url
\* receives the original image.  origin and colormap reach image_to_url
\* unchanged in both cases.
C7_MercatorBeforeUrl ==
  (ov.cls = "ImageOverlay" /\ ov.exc # "pending")
    => LET lat == <<ov.in.bounds.items[1].items[1], ov.in.bounds.items[2].items[1]>>
           n == Len(ov.calls)
       IN  /\ IF ov.in.mercator_project
                THEN /\ n = 2
                     /\ ov.calls[1] = [fn |-> "mercator_transform", image |-> ov.in.image,
                                       lat_extent |-> lat, origin |-> ov.in.origin]
                     /\ ov.calls[2].image =
                          [t |-> "mercator", image |-> ov.in.image,
                           lat_extent |-> lat, origin |-> ov.in.origin]
                ELSE /\ n = 1
                     /\ ov.calls[1].image = ov.in.image
           /\ ov.calls[n].fn = "image_to_url"
           /\ ov.calls[n].origin = ov.in.origin
           /\ ov.calls[n].colormap = ov.in.colormap
           /\ ov.self.url = [t |-> "url", image |-> ov.calls[n].image,
                             origin |-> ov.in.origin, colormap |-> ov.in.colormap]

C7_Witness ==
  /\ ov.cls = "ImageOverlay" /\ ov.exc = "none"
  /\ ov.in.mercator_project
  /\ Len(ov.calls) = 2
  /\ ov.in.bounds.items[1].items[1] # ov.in.bounds.items[1].items[2]
  /\ ov.in.colormap # None
  /\ ov.in.origin = "lower"

NumValue(v) ==
  IF v.t = "int" THEN 10 * v.n ELSE v.tenths

RECURSIVE StructEq(_, _)
StructEq(a, b) ==
  IF a.t \in {"list", "tuple"}
    THEN /\ b.t \in {"list", "tuple"}
         /\ Len(a.items) = Len(b.items)
         /\ \A i \in 1..Len(a.items) : StructEq(a.items[i], b.items[i])
    ELSE /\ b.t \in {"int", "float"}
         /\ NumValue(a) = NumValue(b)

\* C8: self_bounds() of an ImageOverlay or a VideoOverlay constructed with
\* bounds given as nested arrays of numbers returns a value structurally
\* equal to those bounds, also after any number of renders.
C8_BoundsRoundTrip ==
  ov.exc = "none"
    => /\ StructEq(_get_self_bounds(ov.self), ov.in.bounds)
       /\ _get_self_bounds(ov.self).t = "list"

C8_Witness ==
  /\ ov.exc = "none"
  /\ ov.renders = MaxRenders
  /\ ov.in.bounds.t = "tuple"
  /\ ov.in.bounds.items[1].items[1].t = "float"
  /\ ov.in.bounds.items[2].items[2].t = "int"
  /\ StructEq(_get_self_bounds(ov.self), ov.in.bounds)

(* ------------------------------------------------------------------ *)
(* Properties of options serialization                                 *)
(* ------------------------------------------------------------------ *)
KeysSorted(text) ==
  \A i \in 1..(Len(text) - 1) : StrLess(text[i].k, text[i + 1].k)

ItemSet(d) ==
  { d[i] : i \in 1..Len(d) }

SameInput(a, b) ==
  /\ a.cls = b.cls
  /\ IF a.cls = "TileLayer" THEN a.in = b.in
     ELSE /\ [a.in EXCEPT !.kwargs = <<>>] = [b.in EXCEPT !.kwargs = <<>>]
          /\ ItemSet(a.in.kwargs) = ItemSet(b.in.kwargs)

\* C9: the options text of a TileLayer, a WmsTileLayer and an ImageOverlay
\* has its keys in sorted order, and two constructions with the same input
\* yield the same text, whatever the order in which the options were
\* supplied or the dict iterates.
C9_SortedDeterministic ==
  /\ \A o \in {prev, cur} : o.exc = "none" => KeysSorted(o.options)
  /\ (prev.exc = "none" /\ cur.exc = "none" /\ SameInput(prev, cur))
       => prev.options = cur.options

C9_Witness ==
  /\ prev.exc = "none" /\ cur.exc = "none"
  /\ prev.cls = "WmsTileLayer"
  /\ SameInput(prev, cur)
  /\ prev.in.kwargs # cur.in.kwargs
  /\ Len(prev.in.kwargs) = 2
  /\ prev.options = cur.options

====
